---- MODULE Spec2Model ----
(***************************************************************************)
(* Batch iteration of cnlp/fastai_extended.py: LanguageModelLoader,        *)
(* ShuffledLanguageModelLoader and FixedLengthDataLoader.jag_stack.        *)
(*                                                                         *)
(* A 2-D tensor is a record [shape |-> <<d0, d1>>, rows |-> <<...>>] with   *)
(* d0 rows of d1 entries; positions of the source are 0-based as in the    *)
(* Python code, TLA+ sequences are 1-based.                                *)
(***************************************************************************)
EXTENDS Integers, Sequences, FiniteSets, TLC

VARIABLES
    args,   \* the arguments the loader is constructed with
    self,   \* the loader object (its fields), NoLoader before construction
    gen,    \* the generators __iter__ returned: pass id -> frame
    jag     \* one call of FixedLengthDataLoader.jag_stack

vars == <<args, self, gen, jag>>

-----------------------------------------------------------------------------
(* Bounds of the model *)

MaxLen == 5         \* longest token stream of the constructor specification
MaxBs == 3          \* largest bs of the constructor specification
MaxBptt == 6        \* largest bptt
PassBs == 2         \* largest bs of the pass specifications
MaxTwoBptt == 3     \* largest bptt of the two-pass specification
MaxTarget == 3      \* largest target_length
MaxN == 58          \* longest token stream of the pass specifications
MaxShuffledN == 29  \* longest token stream of the shuffled pass specification
MaxTwoN == 9        \* longest token stream of the two-pass specification
MaxBatch == 2       \* most examples in a jag_stack batch
MaxExLen == 3       \* longest example in a jag_stack batch
MaxSeqLength == 3   \* largest seq_length of the padding loader

Tokens == {0, 1, 2}
ExTokens == {1, 2}
PadIdxs == {0, 1}

\* np.random.random() in hundredths, and the deviation of one
\* np.random.normal(bptt, 5) draw from its mean, in halves
UniformDraws == {0, 94, 95, 99}
NoiseDraws == {-80, -9, -1, 0, 13, 21, 80}

-----------------------------------------------------------------------------
(* Python and numpy primitives *)

Max(a, b) == IF a >= b THEN a ELSE b
Min(a, b) == IF a <= b THEN a ELSE b

Reverse(s) == [k \in 1..Len(s) |-> s[Len(s) + 1 - k]]

\* a bound of a slice lo:hi normalised against an axis of length n
SliceBound(x, n) == IF x < 0 THEN Max(n + x, 0) ELSE Min(x, n)

\* t[lo:hi] for a sequence
SliceSeq(s, lo, hi) ==
    LET a == SliceBound(lo, Len(s))
        b == SliceBound(hi, Len(s))
    IN  [k \in 1..Max(b - a, 0) |-> s[a + k]]

\* t[lo:hi] and t[:, lo:hi] for a 2-D tensor
SliceAxis0(t, lo, hi) ==
    LET r == SliceSeq(t.rows, lo, hi)
    IN  [shape |-> <<Len(r), t.shape[2]>>, rows |-> r]

SliceAxis1(t, lo, hi) ==
    LET a == SliceBound(lo, t.shape[2])
        b == SliceBound(hi, t.shape[2])
    IN  [shape |-> <<t.shape[1], Max(b - a, 0)>>,
         rows |-> [r \in 1..t.shape[1] |-> SliceSeq(t.rows[r], lo, hi)]]

\* .contiguous().view(-1): the entries in row-major order
RECURSIVE Concat(_)
Concat(ss) == IF ss = <<>> THEN <<>> ELSE Head(ss) \o Concat(Tail(ss))

View1(t) == Concat(t.rows)

\* int(x) of a float given in halves: truncation toward zero
IntOfHalves(h) == IF h >= 0 THEN h \div 2 ELSE -((-h) \div 2)

-----------------------------------------------------------------------------
(* LanguageModelLoader *)

MAX_PLUS == 25

NoLoader == [cls |-> "none"]

\* batchify with the rows reversed before the cut to a multiple of bs
batchify_reverse_stream(data, bs, backwards, batch_first) ==
    LET nb == Len(data) \div bs
        src == IF backwards THEN Reverse(data) ELSE data
        cut == SubSeq(src, 1, nb * bs)
        reshaped == [r \in 1..bs |-> SubSeq(cut, (r - 1) * nb + 1, r * nb)]
    IN  IF batch_first
        THEN [shape |-> <<bs, nb>>, rows |-> reshaped]
        ELSE [shape |-> <<nb, bs>>,
              rows |-> [p \in 1..nb |-> [r \in 1..bs |-> reshaped[r][p]]]]

\* batchify: cut to nb * bs tokens, reshape to bs rows, reverse each row when
\* backwards, transpose unless batch_first. Tokens are integer ids, which
\* astype("int64") leaves as they are. reshape(bs, -1) of an empty array gives
\* bs empty rows, it does not raise.
batchify(data, bs, backwards, batch_first) ==
    LET nb == Len(data) \div bs
        cut == SubSeq(data, 1, nb * bs)
        reshaped == [r \in 1..bs |-> SubSeq(cut, (r - 1) * nb + 1, r * nb)]
        flipped == IF backwards
                   THEN [r \in 1..bs |-> Reverse(reshaped[r])]
                   ELSE reshaped
    IN  IF batch_first
        THEN [shape |-> <<bs, nb>>, rows |-> flipped]
        ELSE [shape |-> <<nb, bs>>,
              rows |-> [p \in 1..nb |-> [r \in 1..bs |-> flipped[r][p]]]]

\* __init__: the fields of the constructed loader
LoaderInit(a) ==
    LET data == batchify(a.nums, a.bs, a.backwards, a.batch_first)
    IN  [cls |-> a.cls,
         bs |-> a.bs, bptt |-> a.bptt, backwards |-> a.backwards,
         batch_first |-> a.batch_first,
         data |-> data,
         i |-> 0, iter |-> 0,
         n |-> IF a.batch_first THEN data.shape[2] ELSE data.shape[1],
         randomize_bptt |-> a.randomize_bptt,
         target_length |-> a.target_length]

\* ShuffledLanguageModelLoader.__init__: the base initializer, backwards False
ShuffledLoaderInit(a) == LoaderInit([a EXCEPT !.backwards = FALSE])

max_possible_seq_len(s) ==
    IF s.randomize_bptt = FALSE THEN s.bptt ELSE s.bptt + MAX_PLUS

\* __len__ without the - 1
len_no_minus_one(s) == s.n \div s.bptt

\* __len__; len(self) raises ValueError when it is negative
__len__(s) == (s.n \div s.bptt) - 1

\* get_batch whose target is the whole shifted window
get_batch_whole_target(s, i, seq_len) ==
    IF s.batch_first
    THEN [x |-> SliceAxis1(s.data, i, i + seq_len),
          y |-> View1(SliceAxis1(s.data, i + 1, i + 1 + seq_len))]
    ELSE [x |-> SliceAxis0(s.data, i, i + seq_len),
          y |-> View1(SliceAxis0(s.data, i + 1, i + 1 + seq_len))]

get_batch(s, i, seq_len) ==
    LET source == s.data
        target_offset == Max(0, seq_len - s.target_length)
    IN  IF s.batch_first
        THEN [x |-> SliceAxis1(source, i, i + seq_len),
              y |-> View1(SliceAxis1(source, i + 1 + target_offset,
                                     i + 1 + seq_len))]
        ELSE [x |-> SliceAxis0(source, i, i + seq_len),
              y |-> View1(SliceAxis0(source, i + 1 + target_offset,
                                     i + 1 + seq_len))]

\* the randomized chunk length without the floor of 5
random_seq_len_no_floor(s, u, z) ==
    LET bptt2 == IF u < 95 THEN 2 * s.bptt ELSE s.bptt
    IN  Min(IntOfHalves(bptt2 + z), max_possible_seq_len(s))

\* the chunk length of a later step of a randomized pass: u is the
\* np.random.random() draw in hundredths, z the deviation of the normal draw
\* from its mean in halves (the mean bptt or bptt / 2. is 2 * bptt or bptt halves)
random_seq_len(s, u, z) ==
    LET bptt2 == IF u < 95 THEN 2 * s.bptt ELSE s.bptt
    IN  Max(5, Min(IntOfHalves(bptt2 + z), max_possible_seq_len(s)))

\* the chunk lengths a step can choose; first is self.i == 0 (step == 0 in the
\* shuffled loader)
SeqLens(s, first) ==
    IF s.randomize_bptt
    THEN IF first
         THEN {s.bptt + 5 * 5}
         ELSE {random_seq_len(s, u, z) : u \in UniformDraws, z \in NoiseDraws}
    ELSE {s.bptt}

\* the residual check that also keeps a position back for the target
ditch_residuals_early(s, seq_len) == s.i + seq_len + 1 >= s.n

\* "ditch residuals": the chunk does not fit before the last position
ditch_residuals(s, seq_len) == s.i + seq_len >= s.n

\* self.i, self.iter = 0, 0
Reset(s) == [s EXCEPT !.i = 0, !.iter = 0]

\* the cursor advanced by the fixed bptt whatever the chunk length was
advance_by_bptt(s, seq_len) == [s EXCEPT !.i = @ + s.bptt, !.iter = @ + 1]

\* self.i += seq_len; self.iter += 1
advance(s, seq_len) == [s EXCEPT !.i = @ + seq_len, !.iter = @ + 1]

NewFrame == [pc |-> "created", step |-> 0, batches |-> <<>>,
             res |-> [i |-> 0, seq_len |-> 0, x |-> <<>>, y |-> <<>>],
             err |-> "none"]

Live(p) == gen[p].pc \in {"created", "suspended"}

Stop(p, s) ==
    /\ self' = s
    /\ gen' = [gen EXCEPT ![p].pc = "done"]

Raise(p, s, what) ==
    /\ self' = s
    /\ gen' = [gen EXCEPT ![p].pc = "error", ![p].err = what]

Yield(p, s, i, seq_len) ==
    gen' = [gen EXCEPT ![p] = [@ EXCEPT
                !.pc = "suspended",
                !.step = @ + 1,
                !.batches = IF s.cls = "LanguageModelLoader"
                            THEN Append(@, <<i, seq_len>>) ELSE @,
                !.res = [i |-> i, seq_len |-> seq_len]
                        @@ get_batch(s, i, seq_len)]]

\* one next() on the generator of LanguageModelLoader.__iter__: from the call
\* or the last yield to the next yield, the end of the loop or an exception
IterNext(p) ==
    /\ self.cls = "LanguageModelLoader"
    /\ Live(p)
    /\ LET s == IF gen[p].pc = "created" THEN Reset(self) ELSE self
       IN  IF ~(s.i < s.n - 1) THEN Stop(p, s)
           ELSE IF __len__(s) < 0 THEN Raise(p, s, "len")
           ELSE IF ~(s.iter < __len__(s)) THEN Stop(p, s)
           ELSE \E seq_len \in SeqLens(s, s.i = 0) :
                   IF ditch_residuals(s, seq_len)
                   THEN Stop(p, s)
                   ELSE /\ self' = advance(s, seq_len)
                        /\ Yield(p, s, s.i, seq_len)
    /\ UNCHANGED <<args, jag>>

\* one next() on the generator of ShuffledLanguageModelLoader.__iter__
ShuffledIterNext(p) ==
    /\ self.cls = "ShuffledLanguageModelLoader"
    /\ Live(p)
    /\ IF __len__(self) < 0 THEN Raise(p, self, "len")
       ELSE IF ~(gen[p].step < __len__(self)) THEN Stop(p, self)
       ELSE LET hi == self.n - max_possible_seq_len(self) - 1
            IN  IF hi < 0 THEN Raise(p, self, "randint")
                ELSE \E i \in 0..hi :
                     \E seq_len \in SeqLens(self, gen[p].step = 0) :
                        /\ self' = self
                        /\ Yield(p, self, i, seq_len)
    /\ UNCHANGED <<args, jag>>

\* the loader is constructed (no path of __init__ raises for bs >= 1: a
\* stream shorter than bs reshapes to bs empty rows) and a pass is created
Construct ==
    /\ self = NoLoader
    /\ self' = IF args.cls = "LanguageModelLoader"
               THEN LoaderInit(args) ELSE ShuffledLoaderInit(args)
    /\ gen' = <<NewFrame>>
    /\ UNCHANGED <<args, jag>>

IdleJag == [pc |-> "idle"]

-----------------------------------------------------------------------------
(* FixedLengthDataLoader.jag_stack *)

ValueError == [raised |-> TRUE, rows |-> <<>>]

\* np.stack of 1-D arrays: they must all have the same shape
np_stack(b) ==
    IF \A k \in 1..Len(b) : Len(b[k]) = Len(b[1])
    THEN [raised |-> FALSE, rows |-> b]
    ELSE ValueError

\* row[lo:hi] = o of numpy: o must have the length of the slice, or length 1
\* (broadcast); anything else raises ValueError
AssignSlice(row, lo, hi, o) ==
    LET a == SliceBound(lo, Len(row))
        b == SliceBound(hi, Len(row))
        m == Max(b - a, 0)
    IN  IF Len(o) = m
        THEN [raised |-> FALSE,
              row |-> [k \in 1..Len(row) |->
                          IF a < k /\ k <= a + m THEN o[k - a] ELSE row[k]]]
        ELSE IF Len(o) = 1
        THEN [raised |-> FALSE,
              row |-> [k \in 1..Len(row) |->
                          IF a < k /\ k <= a + m THEN o[1] ELSE row[k]]]
        ELSE [raised |-> TRUE, row |-> row]

MinLen(b) == CHOOSE m \in {Len(b[k]) : k \in 1..Len(b)} :
                \A k \in 1..Len(b) : m <= Len(b[k])

\* jag_stack of a batch b of 1-D arrays
jag_stack(b, seq_length, pad_idx, pre_pad) ==
    LET ml == seq_length
        blank == [k \in 1..ml |-> pad_idx]
        \* res[i, -len(o):] = o  and  res[i, :len(o)] = o
        filled == [i \in 1..Len(b) |->
                     IF pre_pad
                     THEN AssignSlice(blank, -Len(b[i]), ml, b[i])
                     ELSE AssignSlice(blank, 0, Len(b[i]), b[i])]
    IN  IF MinLen(b) = ml THEN np_stack(b)
        ELSE IF \E i \in 1..Len(b) : filled[i].raised THEN ValueError
        ELSE [raised |-> FALSE, rows |-> [i \in 1..Len(b) |-> filled[i].row]]

JagStack ==
    /\ jag.pc = "call"
    /\ jag' = [jag EXCEPT !.pc = "returned",
                          !.res = jag_stack(jag.b, jag.seq_length,
                                            jag.pad_idx, jag.pre_pad)]
    /\ UNCHANGED <<args, self, gen>>

-----------------------------------------------------------------------------
(* Specifications *)

SeqsOver(S, n) == UNION {[1..k -> S] : k \in 0..n}

\* the token stream whose token is its own position
Stream(L) == [k \in 1..L |-> k - 1]

NoArgs == [cls |-> "none"]

\* construction of either loader over arbitrary short streams
InitCtor ==
    /\ args \in [cls : {"LanguageModelLoader", "ShuffledLanguageModelLoader"},
                 nums : SeqsOver(Tokens, MaxLen),
                 bs : 1..MaxBs,
                 bptt : {1},
                 target_length : {1},
                 backwards : BOOLEAN,
                 batch_first : BOOLEAN,
                 randomize_bptt : {FALSE}]
    /\ self = NoLoader
    /\ gen = <<>>
    /\ jag = IdleJag

SpecCtor == InitCtor /\ [][Construct]_vars

\* one pass of a LanguageModelLoader
InitLoader ==
    /\ args \in [cls : {"LanguageModelLoader"},
                 nums : {Stream(L) : L \in 0..MaxN},
                 bs : 1..PassBs,
                 bptt : 1..MaxBptt,
                 target_length : 1..MaxTarget,
                 backwards : BOOLEAN,
                 batch_first : BOOLEAN,
                 randomize_bptt : BOOLEAN]
    /\ self = LoaderInit(args)
    /\ gen = <<NewFrame>>
    /\ jag = IdleJag

NextLoader == \E p \in DOMAIN gen : IterNext(p)

Spec == InitLoader /\ [][NextLoader]_vars

\* one pass of a ShuffledLanguageModelLoader
InitShuffled ==
    /\ args \in [cls : {"ShuffledLanguageModelLoader"},
                 nums : {Stream(L) : L \in 0..MaxShuffledN},
                 bs : {1},
                 bptt : 1..MaxBptt,
                 target_length : 1..MaxTarget,
                 backwards : {FALSE},
                 batch_first : BOOLEAN,
                 randomize_bptt : BOOLEAN]
    /\ self = ShuffledLoaderInit(args)
    /\ gen = <<NewFrame>>
    /\ jag = IdleJag

NextShuffled == \E p \in DOMAIN gen : ShuffledIterNext(p)

SpecShuffled == InitShuffled /\ [][NextShuffled]_vars

\* two passes over one LanguageModelLoader, their next() calls interleaved
InitTwo ==
    /\ args \in [cls : {"LanguageModelLoader"},
                 nums : {Stream(L) : L \in 0..MaxTwoN},
                 bs : {1},
                 bptt : 1..MaxTwoBptt,
                 target_length : {1},
                 backwards : {FALSE},
                 batch_first : {FALSE},
                 randomize_bptt : {FALSE}]
    /\ self = LoaderInit(args)
    /\ gen = <<NewFrame, NewFrame>>
    /\ jag = IdleJag

SpecTwo == InitTwo /\ [][NextLoader]_vars

\* one call of jag_stack
InitJag ==
    /\ args = NoArgs
    /\ self = NoLoader
    /\ gen = <<>>
    /\ \E n \in 1..MaxBatch :
          jag \in [pc : {"call"},
                   b : [1..n -> SeqsOver(ExTokens, MaxExLen)],
                   seq_length : 0..MaxSeqLength,
                   pad_idx : PadIdxs,
                   pre_pad : BOOLEAN,
                   res : {[raised |-> FALSE, rows |-> <<>>]}]

SpecJag == InitJag /\ [][JagStack]_vars

-----------------------------------------------------------------------------
(* Properties *)

IsPrefix(a, b) == Len(a) <= Len(b) /\ SubSeq(b, 1, Len(a)) = a

\* the token at 0-based position p of stream r of the batch matrix
Elem(s, p, r) ==
    IF s.batch_first THEN s.data.rows[r][p + 1] ELSE s.data.rows[p + 1][r]

\* stream r of a batch matrix, in position order
StreamOf(s, r) == [p \in 1..s.n |-> Elem(s, p - 1, r)]

Constructed == self.cls # "none"

\* C1: batchify yields exactly bs streams of floor(L / bs) positions each (the
\* position is the leading axis unless batch_first), and the streams, each
\* reversed back when backwards is set, concatenated in order are the first
\* bs * floor(L / bs) tokens of the stream, so the last L mod bs appear nowhere
C1_BatchifyPartition ==
    Constructed =>
        LET B == args.bs
            q == Len(args.nums) \div B
            t == self.data
        IN  /\ t.shape = IF self.batch_first THEN <<B, q>> ELSE <<q, B>>
            /\ Len(t.rows) = t.shape[1]
            /\ \A k \in 1..Len(t.rows) : Len(t.rows[k]) = t.shape[2]
            /\ self.n = q
            /\ Concat([r \in 1..B |->
                         IF self.backwards THEN Reverse(StreamOf(self, r))
                                           ELSE StreamOf(self, r)])
               = SubSeq(args.nums, 1, B * q)

C1_Witness ==
    /\ Constructed
    /\ self.backwards /\ ~self.batch_first
    /\ args.bs = 2 /\ Len(args.nums) = 5
    /\ args.nums[1] # args.nums[2]

\* C2: a batch yielded at cursor i with chunk length s has as input the
\* positions [i, i+s) of every stream and as target the positions
\* [i+1+max(0, s-T), i+1+s): min(s, T) <= T tokens per stream, all inside the
\* matrix
C2_BatchWindows ==
    \A p \in DOMAIN gen :
        gen[p].pc = "suspended" =>
            LET b == gen[p].res
                i == b.i
                sl == b.seq_len
                T == self.target_length
                off == Max(0, sl - T)
                m == Min(sl, T)
            IN  /\ i + 1 + sl <= self.n
                /\ m <= T
                /\ Len(b.y) = self.bs * m
                /\ IF self.batch_first
                   THEN /\ b.x.shape = <<self.bs, sl>>
                        /\ b.x.rows = [r \in 1..self.bs |->
                                 [k \in 1..sl |-> Elem(self, i + k - 1, r)]]
                        /\ b.y = Concat([r \in 1..self.bs |->
                                 [k \in 1..m |-> Elem(self, i + off + k, r)]])
                   ELSE /\ b.x.shape = <<sl, self.bs>>
                        /\ b.x.rows = [k \in 1..sl |->
                                 [r \in 1..self.bs |-> Elem(self, i + k - 1, r)]]
                        /\ b.y = Concat([k \in 1..m |->
                                 [r \in 1..self.bs |-> Elem(self, i + off + k, r)]])

C2_Witness ==
    /\ gen[1].pc = "suspended"
    /\ gen[1].res.i > 0
    /\ gen[1].res.seq_len > self.target_length
    /\ self.target_length = 2
    /\ self.bs = 2
    /\ self.batch_first

\* C3: with randomize_bptt off a pass yields at the cursors 0, bptt, ...,
\* (len - 1) * bptt with len = floor(n / bptt) - 1, nothing when len <= 0, and
\* every yielded cursor i has i + bptt <= n - 1
C3_FixedCursors ==
    \A p \in DOMAIN gen :
        ~self.randomize_bptt =>
            LET count == Max(0, (self.n \div self.bptt) - 1)
                all == [k \in 1..count |-> <<(k - 1) * self.bptt, self.bptt>>]
            IN  /\ IsPrefix(gen[p].batches, all)
                /\ gen[p].pc \in {"done", "error"} => gen[p].batches = all
                /\ \A k \in 1..Len(gen[p].batches) :
                       gen[p].batches[k][1] + self.bptt <= self.n - 1

C3_Witness ==
    /\ ~self.randomize_bptt
    /\ gen[1].pc = "done"
    /\ Len(gen[1].batches) = 3
    /\ self.bptt = 4
    /\ self.n % self.bptt # 0

\* C4: the cursor of a pass starts at 0 and advances by exactly the chunk
\* length of the batch just yielded, so each input window starts where the
\* one before it ended
C4_ContiguousWindows ==
    \A p \in DOMAIN gen :
        LET bb == gen[p].batches
        IN  /\ Len(bb) > 0 => bb[1][1] = 0
            /\ \A k \in 2..Len(bb) : bb[k][1] = bb[k - 1][1] + bb[k - 1][2]
            /\ Len(bb) > 0 => self.i = bb[Len(bb)][1] + bb[Len(bb)][2]
            /\ gen[p].pc = "suspended" =>
                   /\ gen[p].res.i = bb[Len(bb)][1]
                   /\ gen[p].res.seq_len = bb[Len(bb)][2]

C4_Witness ==
    /\ self.randomize_bptt
    /\ Len(gen[1].batches) = 3
    /\ gen[1].batches[2][2] # gen[1].batches[3][2]
    /\ gen[1].batches[2][2] # self.bptt

\* C5: with randomize_bptt on, the first chunk of a pass is bptt + 25 long and
\* every later one between 5 and bptt + 25, and no draw makes the pass raise
C5_RandomChunkLengths ==
    \A p \in DOMAIN gen :
        self.randomize_bptt =>
            LET bb == gen[p].batches
            IN  /\ Len(bb) > 0 => bb[1][2] = self.bptt + 25
                /\ \A k \in 2..Len(bb) :
                       bb[k][2] >= 5 /\ bb[k][2] <= self.bptt + 25
                /\ gen[p].err # "none" =>
                       gen[p].err = "len" /\ bb = <<>>

C5_Witness ==
    /\ self.randomize_bptt
    /\ Len(gen[1].batches) = 3
    /\ gen[1].batches[2][2] = self.bptt + 25
    /\ gen[1].batches[3][2] = 5

\* C6 as claimed: when a pass ends, the positions from the final cursor to the
\* end of the matrix are at most one chunk length
C6_TailWithinOneChunk ==
    \A p \in DOMAIN gen :
        gen[p].pc = "done" => self.n - self.i <= max_possible_seq_len(self)

\* C6 as amended: the tail is at most one chunk length when the pass ended at
\* the residual check or at the end of the matrix (counter below len()); with
\* randomize_bptt off it is below 2 * bptt however the pass ended
C6_TailBound ==
    \A p \in DOMAIN gen :
        gen[p].pc \in {"done", "error"} =>
            /\ self.iter < (self.n \div self.bptt) - 1 =>
                   self.n - self.i <= self.bptt
                                      + (IF self.randomize_bptt THEN 25 ELSE 0)
            /\ ~self.randomize_bptt => self.n - self.i < 2 * self.bptt

C6_Witness ==
    /\ gen[1].pc = "done"
    /\ ~self.randomize_bptt
    /\ Len(gen[1].batches) = 2
    /\ self.n - self.i = 2 * self.bptt - 1
    /\ self.bptt = 3

\* C7: every step of a ShuffledLanguageModelLoader pass yields a batch at an
\* offset in [0, n - max_possible_seq_len - 1] whose windows lie inside the
\* matrix, no step raises, and the pass yields exactly len() batches
C7_ShuffledStepsYield ==
    \A p \in DOMAIN gen :
        /\ gen[p].err # "randint"
        /\ gen[p].pc = "suspended" =>
               /\ gen[p].res.i >= 0
               /\ gen[p].res.i <= self.n - max_possible_seq_len(self) - 1
               /\ gen[p].res.i + gen[p].res.seq_len + 1 <= self.n
        /\ gen[p].pc = "done" => gen[p].step = (self.n \div self.bptt) - 1

\* C8: a stream shorter than bs never gives a constructed loader
C8_ShortStreamRejected ==
    Constructed => Len(args.nums) >= args.bs

\* C9: jag_stack with pre_pad, no example longer than seq_length and one
\* shorter: every row is seq_length wide, ends with its example and is pad_idx
\* before it
C9_PrePadRightAligned ==
    (/\ jag.pc = "returned"
     /\ jag.pre_pad
     /\ \A i \in 1..Len(jag.b) : Len(jag.b[i]) <= jag.seq_length
     /\ \E i \in 1..Len(jag.b) : Len(jag.b[i]) < jag.seq_length)
    => /\ ~jag.res.raised
       /\ Len(jag.res.rows) = Len(jag.b)
       /\ \A i \in 1..Len(jag.b) :
             LET o == jag.b[i]
                 row == jag.res.rows[i]
                 ml == jag.seq_length
             IN  /\ Len(row) = ml
                 /\ \A k \in 1..ml :
                       row[k] = IF k <= ml - Len(o) THEN jag.pad_idx
                                ELSE o[k - (ml - Len(o))]

\* the batches a pass with randomize_bptt off yields when it runs alone
RECURSIVE RunAlone(_)
RunAlone(s) ==
    IF /\ s.i < s.n - 1
       /\ __len__(s) >= 0
       /\ s.iter < __len__(s)
       /\ ~ditch_residuals(s, s.bptt)
    THEN <<<<s.i, s.bptt>>>> \o RunAlone(advance(s, s.bptt))
    ELSE <<>>

\* C10: whatever the interleaving of two passes over one loader, each yields
\* the batches it yields alone
C10_PassesIndependent ==
    \A p \in DOMAIN gen :
        /\ IsPrefix(gen[p].batches, RunAlone(Reset(self)))
        /\ gen[p].pc = "done" => gen[p].batches = RunAlone(Reset(self))

====
